---- MODULE Spec2Model ----
(***************************************************************************)
(* Directive validation of apollo-compiler                                 *)
(* (crates/apollo-compiler/src/validation/directive.rs).                   *)
(*                                                                         *)
(* Two state machines share this module:                                   *)
(*   SpecCycle      - validate_directive_definition: the depth-first       *)
(*                    search of FindRecursiveDirective, one step per call  *)
(*                    or return of its mutually recursive functions, and   *)
(*                    the mapping of its result to a diagnostic;           *)
(*   SpecDirectives - validate_directives: one step per directive          *)
(*                    application of the list.                             *)
(***************************************************************************)
EXTENDS Integers, Sequences, FiniteSets, TLC

VARIABLES
    \* ---- validate_directive_definition / FindRecursiveDirective ----
    schema,           \* the read-only schema: directive_definitions, types
    def,              \* name of the directive definition under validation
    call_stack,       \* native call stack: frames of the recursive functions
    recursion_stack,  \* RecursionStack: ordered path + membership index
    ret,              \* Result returned by the callee that returned last
    trace,            \* payload of CycleError::Recursed
    status,           \* "idle" | "checking" | "validated" | "stack_overflow"
    diagnostics,      \* DiagnosticList of validate_directive_definition
    \* ---- validate_directives ----
    app_schema,       \* Option<&Schema>: None or the directive definitions
    dir_loc,          \* the attachment location of the application list
    dirs,             \* the applications consumed from the iterator so far
    seen_directives,  \* HashMap name -> location of the first occurrence
    app_diagnostics,  \* DiagnosticList of validate_directives
    calls             \* calls made to the external value/variable validators

varsC == <<schema, def, call_stack, recursion_stack, ret, trace, status, diagnostics>>
varsD == <<app_schema, dir_loc, dirs, seen_directives, app_diagnostics, calls>>
vars == <<varsC, varsD>>

None == "None"

\* ------------------------------------------------------------------ bounds
\* Longest chain of input-object types in the schemas explored.
MaxChain == 4
\* Number of frames the native stack holds before the process aborts.
StackLimit == 22
\* Longest application list, and most arguments written in one list.
MaxApps == 3
MaxTotalArgs == 2

\* The fixed depth bound of RecursionStack (scaled down).
RecursionLimit == 2

\* --------------------------------------------------------------- schemas
Dirs == {"a", "b", "c"}
\* "u" is applied in schemas but has no definition.
AppliedNames == Dirs \cup {"u"}

InputValue(directives, ty) == [directives |-> directives, ty |-> ty]

TypeDef(kind, directives, values, fields) ==
    [kind |-> kind, directives |-> directives, values |-> values, fields |-> fields]

TName(i) == "T" \o ToString(i)

Opt(d) == IF d = None THEN <<>> ELSE <<d>>

\* A shape of the type graph under the argument of @a: a chain T1 .. Tlen of
\* input objects, each typing its field `next` by the following one; the last
\* one closes the chain back on T1 (cyc) or ends in a leaf type.  One
\* application of tdir sits at pos: on the last input object ("type"), on its
\* field next ("field"), on a further field declared after next ("after"), on
\* the leaf scalar / union ("scalar", "union") or on a value of the leaf enum.
Positions == {"type", "field", "after", "scalar", "union", "enum"}

TypeCfgs ==
    {[len |-> 0, cyc |-> FALSE, tdir |-> None, pos |-> "none"]} \cup
    {c \in [len : 1..MaxChain, cyc : BOOLEAN, tdir : AppliedNames \cup {None},
            pos : Positions \cup {"none"}] :
        /\ (c.tdir = None) <=> (c.pos = "none")
        /\ c.cyc => c.pos \in {"none", "type", "field", "after"}}

LastType(c) ==
    LET nextTy == IF c.cyc THEN TName(1)
                  ELSE IF c.pos \in {"scalar", "union", "enum"} THEN "Leaf"
                  ELSE "Int"
    IN TypeDef("InputObject",
               IF c.pos = "type" THEN <<c.tdir>> ELSE <<>>,
               <<>>,
               <<InputValue(IF c.pos = "field" THEN <<c.tdir>> ELSE <<>>, nextTy)>>
                 \o (IF c.pos = "after" THEN <<InputValue(<<c.tdir>>, "Int")>> ELSE <<>>))

LeafType(c) ==
    CASE c.pos = "enum"   -> TypeDef("Enum", <<>>, << <<>>, <<c.tdir>> >>, <<>>)
      [] c.pos = "union"  -> TypeDef("Union", <<c.tdir>>, <<>>, <<>>)
      [] c.pos = "scalar" -> TypeDef("Scalar", <<c.tdir>>, <<>>, <<>>)
      [] OTHER            -> TypeDef("Scalar", <<>>, <<>>, <<>>)

MkSchema(use, c) ==
    [directive_definitions |->
        [d \in Dirs |->
            CASE d = "a" -> <<InputValue(Opt(use[d]), IF c.len = 0 THEN "Int" ELSE TName(1))>>
              [] d = "c" -> <<InputValue(<<>>, "Int"), InputValue(Opt(use[d]), "Unknown")>>
              [] OTHER   -> <<InputValue(Opt(use[d]), "Unknown")>>],
     types |->
        [t \in {TName(i) : i \in 1..c.len} \cup {"Int", "Leaf"} |->
            CASE t = "Int"        -> TypeDef("Scalar", <<>>, <<>>, <<>>)
              [] t = "Leaf"       -> LeafType(c)
              [] t = TName(c.len) -> LastType(c)
              [] OTHER            ->
                   TypeDef("InputObject", <<>>, <<>>,
                           <<InputValue(<<>>,
                               TName(1 + CHOOSE i \in 1..c.len : TName(i) = t))>>)]]

Schemas == {MkSchema(use, c) : use \in [Dirs -> Dirs \cup {None}], c \in TypeCfgs}

\* ------------------------------------------- RecursionStack / RecursionGuard
WithRoot(root) == [seen |-> <<root>>, index |-> {root}]

Contains(s, name) == name \in s.index

First(s) == IF s.seen = <<>> THEN None ELSE s.seen[1]

\* push fails when the path would exceed the depth bound
PushFails(s) == Len(s.seen) + 1 > RecursionLimit

Push(s, name) == [seen |-> Append(s.seen, name), index |-> s.index \cup {name}]

Pop(s) ==
    [seen |-> SubSeq(s.seen, 1, Len(s.seen) - 1),
     index |-> s.index \ {s.seen[Len(s.seen)]}]

\* CycleError::trace: a Recursed error collects the application, a Limit
\* error is passed on as it is.
Trace(error, tr, directive) == IF error = "Recursed" THEN Append(tr, directive) ELSE tr

\* ------------------------------------------------------------ call frames
Frame(fn, name, list, ty, g, entry) ==
    [fn |-> fn, name |-> name, list |-> list, ty |-> ty, i |-> 1, g |-> g, entry |-> entry]

Top == call_stack[Len(call_stack)]

Running(fn) == status = "checking" /\ call_stack # <<>> /\ Top.fn = fn

IsErr(r) == r \in {"Recursed", "Limit"}

\* directive_definition takes its guard by value, so the guard goes out of
\* scope when the function returns, on `Ok(())` and on `?` alike: the guard
\* made by push pops the name it pushed, the one made by
\* RecursionStack::guard for the root pushed nothing.
DropGuardLeak(s, g) == s

DropGuard(s, g) == IF g = "pushed" THEN Pop(s) ELSE s

\* `if !seen.contains(&directive.name)`
Descend(s, name) == ~Contains(s, name)

\* The top frame calls frame f and will resume at its next position; a call
\* the native stack has no room for aborts the process.  (Call and Return
\* leave recursion_stack and trace to the calling action.)
Call(f) ==
    IF Len(call_stack) >= StackLimit
    THEN /\ status' = "stack_overflow"
         /\ UNCHANGED <<schema, def, call_stack, ret, diagnostics>>
    ELSE /\ call_stack' = Append([call_stack EXCEPT ![Len(call_stack)].i = @ + 1], f)
         /\ ret' = "none"
         /\ UNCHANGED <<schema, def, status, diagnostics>>

\* The top frame returns r to its caller.
Return(r) ==
    /\ call_stack' = SubSeq(call_stack, 1, Len(call_stack) - 1)
    /\ ret' = r
    /\ UNCHANGED <<schema, def, status, diagnostics>>

\* ------------------------------------------------------ FindRecursiveDirective
\* FindRecursiveDirective::check: a stack rooted at the definition's name, and
\* the call of directive_definition with the root guard.
check ==
    /\ status = "idle"
    /\ status' = "checking"
    /\ recursion_stack' = WithRoot(def)
    /\ call_stack' = <<Frame("directive_definition", def, <<>>, None, "root", <<>>)>>
    /\ UNCHANGED <<schema, def, ret, trace, diagnostics, varsD>>

directive_definition ==
    /\ Running("directive_definition")
    /\ LET f == Top
           arguments == schema.directive_definitions[f.name]
       IN IF IsErr(ret)
          THEN /\ Return(ret)
               /\ recursion_stack' = DropGuard(recursion_stack, f.g)
               /\ UNCHANGED trace
          ELSE IF f.i <= Len(arguments)
          THEN /\ Call(Frame("input_value", None, arguments[f.i].directives,
                             arguments[f.i].ty, None, <<>>))
               /\ UNCHANGED <<recursion_stack, trace>>
          ELSE /\ Return("Ok")
               /\ recursion_stack' = DropGuard(recursion_stack, f.g)
               /\ UNCHANGED trace
    /\ UNCHANGED varsD

input_value ==
    /\ Running("input_value")
    /\ LET f == Top
       IN IF IsErr(ret)
          THEN Return(ret)
          ELSE IF f.i <= Len(f.list)
          THEN Call(Frame("directive", f.list[f.i], <<>>, None, None, recursion_stack.seen))
          ELSE IF f.i = Len(f.list) + 1 /\ f.ty \in DOMAIN schema.types
          THEN Call(Frame("type_definition", f.ty, <<>>, None, None, <<>>))
          ELSE Return("Ok")
    /\ UNCHANGED <<recursion_stack, trace, varsD>>

type_definition ==
    /\ Running("type_definition")
    /\ LET f == Top
           t == schema.types[f.name]
       IN IF IsErr(ret)
          THEN Return(ret)
          ELSE IF f.i = 1
          THEN Call(Frame("directives", None, t.directives, None, None, <<>>))
          ELSE IF t.kind = "Enum" /\ f.i - 1 <= Len(t.values)
          THEN Call(Frame("enum_value", None, t.values[f.i - 1], None, None, <<>>))
          ELSE IF t.kind = "InputObject" /\ f.i - 1 <= Len(t.fields)
          THEN Call(Frame("input_value", None, t.fields[f.i - 1].directives,
                          t.fields[f.i - 1].ty, None, <<>>))
          ELSE Return("Ok")
    /\ UNCHANGED <<recursion_stack, trace, varsD>>

enum_value ==
    /\ Running("enum_value")
    /\ LET f == Top
       IN IF IsErr(ret)
          THEN Return(ret)
          ELSE IF f.i <= Len(f.list)
          THEN Call(Frame("directive", f.list[f.i], <<>>, None, None, recursion_stack.seen))
          ELSE Return("Ok")
    /\ UNCHANGED <<recursion_stack, trace, varsD>>

directives ==
    /\ Running("directives")
    /\ LET f == Top
       IN IF IsErr(ret)
          THEN Return(ret)
          ELSE IF f.i <= Len(f.list)
          THEN Call(Frame("directive", f.list[f.i], <<>>, None, None, recursion_stack.seen))
          ELSE Return("Ok")
    /\ UNCHANGED <<recursion_stack, trace, varsD>>

directive ==
    /\ Running("directive")
    /\ LET f == Top
       IN IF f.i = 2
          THEN \* directive_definition returned: `.map_err(|error| error.trace(directive))?`
               /\ Return(ret)
               /\ trace' = Trace(ret, trace, f.name)
               /\ UNCHANGED recursion_stack
          ELSE IF Descend(recursion_stack, f.name)
          THEN IF f.name \in DOMAIN schema.directive_definitions
               THEN IF PushFails(recursion_stack)
                    THEN /\ Return("Limit")
                         /\ UNCHANGED <<recursion_stack, trace>>
                    ELSE /\ Call(Frame("directive_definition", f.name, <<>>, None, "pushed", <<>>))
                         /\ recursion_stack' = Push(recursion_stack, f.name)
                         /\ UNCHANGED trace
               ELSE /\ Return("Ok")
                    /\ UNCHANGED <<recursion_stack, trace>>
          ELSE IF First(recursion_stack) = f.name
          THEN /\ Return("Recursed")
               /\ trace' = <<f.name>>
               /\ UNCHANGED recursion_stack
          ELSE /\ Return("Ok")
               /\ UNCHANGED <<recursion_stack, trace>>
    /\ UNCHANGED varsD

\* validate_directive_definition, after check has returned: the result is
\* mapped to at most one diagnostic.  (validate_argument_definitions, called
\* first, is an external validator with diagnostics of its own kinds.)
validate_directive_definition ==
    /\ status = "checking"
    /\ call_stack = <<>>
    /\ status' = "validated"
    /\ diagnostics' =
         CASE ret = "Recursed" ->
                Append(diagnostics, [kind |-> "RecursiveDirectiveDefinition",
                                     name |-> def, trace |-> trace])
           [] ret = "Limit" ->
                Append(diagnostics, [kind |-> "DeeplyNestedType",
                                     name |-> def, trace |-> <<>>])
           [] OTHER -> diagnostics
    /\ UNCHANGED <<schema, def, call_stack, recursion_stack, ret, trace, varsD>>

InitD0 ==
    /\ app_schema = <<>>
    /\ dir_loc = None
    /\ dirs = <<>>
    /\ seen_directives = <<>>
    /\ app_diagnostics = <<>>
    /\ calls = {}

InitCycle ==
    /\ schema \in Schemas
    /\ def \in Dirs
    /\ call_stack = <<>>
    /\ recursion_stack = [seen |-> <<>>, index |-> {}]
    /\ ret = "none"
    /\ trace = <<>>
    /\ status = "idle"
    /\ diagnostics = <<>>
    /\ InitD0

NextCycle ==
    \/ check
    \/ directive_definition
    \/ input_value
    \/ type_definition
    \/ enum_value
    \/ directives
    \/ directive
    \/ validate_directive_definition

SpecCycle == InitCycle /\ [][NextCycle]_vars

\* ------------------------------------------------------ validate_directives
\* One directive definition, @d, allowed on FIELD only; "u" is never
\* defined.  Its argument list is empty or holds x, required or not:
\* is_required is what InputValueDefinition::is_required() answers for the
\* argument definition (non-null type and no default value).
ArgDefs == [name : {"x"}, is_required : BOOLEAN]

AppSchemas ==
    {[directive_definitions |->
        [n \in {"d"} |-> [name |-> "d", repeatable |-> r, locations |-> {"FIELD"},
                          arguments |-> as]]] :
        r \in BOOLEAN, as \in {<<>>} \cup {<<a>> : a \in ArgDefs}}

Values == {"Null", "Variable", "Int"}

Arguments == [name : {"x", "z"}, value : Values]

SeqsUpTo(S, n) == UNION {[1..m -> S] : m \in 0..n}

RECURSIVE SumLen(_)
SumLen(ds) == IF ds = <<>> THEN 0 ELSE Len(Head(ds).arguments) + SumLen(Tail(ds))

RECURSIVE Concat(_, _)
\* f[1] \o ... \o f[n]
Concat(f, n) == IF n = 0 THEN <<>> ELSE Concat(f, n - 1) \o f[n]

\* Source spans: the i-th application covers 10i .. 10i+9, its name
\* 10i+1 .. 10i+2 (after the `@`), its j-th argument starts at 10i+2+j.
Location(i) == [start |-> 10 * i, end |-> 10 * i + 9]

NameLocation(i) == [start |-> 10 * i + 1, end |-> 10 * i + 2]

ArgLocation(i, j) == [start |-> 10 * i + 2 + j, end |-> 10 * i + 2 + j]

\* SourceSpan::recompose(start_of, end_of): the span made of the two
Recompose(start_of, end_of) == [start_of |-> start_of, end_of |-> end_of]

\* related: original_application of a UniqueDirective, definition_location of
\* the others (a definition of the schema is located at Location(0)).
Diag(kind, loc, name, argument, related) ==
    [kind |-> kind, loc |-> loc, name |-> name, argument |-> argument,
     related |-> related]

\* `schema.and_then(|schema| Some((schema, schema.directive_definitions.get(name)?)))`
\* An Option is a sequence of at most one element.
DefinitionLookup(s, name) ==
    IF s = <<>> THEN <<>>
    ELSE IF name \in DOMAIN s[1].directive_definitions
    THEN <<s[1].directive_definitions[name]>>
    ELSE <<>>

\* `.map(|(_, def)| def.repeatable).unwrap_or(true)`
IsRepeatableDefaultFalse(definition) ==
    IF definition = <<>> THEN FALSE ELSE definition[1].repeatable

IsRepeatable(definition) ==
    IF definition = <<>> THEN TRUE ELSE definition[1].repeatable

\* The map after the application at i: only a name not yet seen is inserted.
SeenInsertAlways(seen, name, i) ==
    (name :> Recompose(Location(i), NameLocation(i))) @@ seen

SeenInsert(seen, name, i) ==
    IF name \in DOMAIN seen THEN seen
    ELSE (name :> Recompose(Location(i), NameLocation(i))) @@ seen

\* `directive_definition.arguments.iter().find(|val| val.name == argument.name)`
FindInputValueFirst(arguments, name) ==
    IF arguments = <<>> THEN <<>> ELSE <<arguments[1]>>

FindInputValue(arguments, name) ==
    LET js == {j \in 1..Len(arguments) : arguments[j].name = name}
    IN IF js = {} THEN <<>>
       ELSE <<arguments[CHOOSE j \in js : \A k \in js : j <= k]>>

\* `dir.arguments.iter().find_map(|arg| (arg.name == arg_def.name).then_some(&arg.value))`
ArgValue(arguments, name) ==
    LET js == {j \in 1..Len(arguments) : arguments[j].name = name}
    IN IF js = {} THEN <<>>
       ELSE <<arguments[CHOOSE j \in js : \A k \in js : j <= k].value>>

\* `match arg_value { None => true, Some(value) => value.is_null() }`
IsNullLiteralOnly(arg_value) == IF arg_value = <<>> THEN FALSE ELSE arg_value[1] = "Null"

IsNull(arg_value) == IF arg_value = <<>> THEN TRUE ELSE arg_value[1] = "Null"

\* `arg_def.is_required()`
IsRequired(arg_def) == arg_def.is_required

\* The uniqueness check of the application at i.
UniqueDiags(dir, i, definition, seen) ==
    IF dir.name \in DOMAIN seen /\ ~IsRepeatable(definition)
    THEN <<Diag("UniqueDirective", Location(i), dir.name, None, seen[dir.name])>>
    ELSE <<>>

\* The checks made when the definition is known: the location, every
\* supplied argument, every defined argument.
LocationDiags(dir, i, d) ==
    IF dir_loc \notin d.locations
    THEN <<Diag("UnsupportedLocation", Location(i), dir.name, None, Location(0))>>
    ELSE <<>>

SuppliedArgumentDiags(dir, i, d) ==
    Concat([j \in 1..Len(dir.arguments) |->
              IF FindInputValue(d.arguments, dir.arguments[j].name) = <<>>
              THEN <<Diag("UndefinedArgument", ArgLocation(i, j), dir.name,
                          dir.arguments[j].name, Location(i))>>
              ELSE <<>>],
           Len(dir.arguments))

RequiredArgumentDiags(dir, i, d) ==
    Concat([k \in 1..Len(d.arguments) |->
              IF IsRequired(d.arguments[k]) /\ IsNull(ArgValue(dir.arguments, d.arguments[k].name))
              THEN <<Diag("RequiredArgument", Location(i), d.name,
                          d.arguments[k].name, Location(0))>>
              ELSE <<>>],
           Len(d.arguments))

\* The supplied arguments that have an argument definition: each goes to
\* validate_variable_usage, and to validate_values when that succeeded.
Checkable(dir, definition) ==
    IF definition = <<>> THEN {}
    ELSE {j \in 1..Len(dir.arguments) :
            FindInputValue(definition[1].arguments, dir.arguments[j].name) # <<>>}

\* One iteration of `for dir in dirs`; dir is the next application of the
\* iterator, rejected the set of its arguments validate_variable_usage
\* rejects (only a variable reference can be rejected).
validate_directives ==
    /\ status = "applications"
    /\ Len(dirs) < MaxApps
    /\ \E dir \in [name : {"d", "u"},
                   arguments : SeqsUpTo(Arguments, MaxTotalArgs - SumLen(dirs))] :
         LET i == Len(dirs) + 1
             definition == DefinitionLookup(app_schema, dir.name)
             checkable == Checkable(dir, definition)
         IN \E rejected \in SUBSET {j \in checkable : dir.arguments[j].value = "Variable"} :
              /\ dirs' = Append(dirs, dir)
              /\ seen_directives' = SeenInsert(seen_directives, dir.name, i)
              /\ app_diagnostics' =
                   app_diagnostics
                   \o UniqueDiags(dir, i, definition, seen_directives)
                   \o (IF definition # <<>>
                       THEN LocationDiags(dir, i, definition[1])
                            \o SuppliedArgumentDiags(dir, i, definition[1])
                            \o RequiredArgumentDiags(dir, i, definition[1])
                       ELSE <<Diag("UndefinedDirective", Location(i), dir.name, None, Location(0))>>)
              /\ calls' = calls
                   \cup {<<i, 0, "validate_arguments">>}
                   \cup {<<i, j, "validate_variable_usage">> : j \in checkable}
                   \cup {<<i, j, "validate_values">> : j \in checkable \ rejected}
    /\ UNCHANGED <<app_schema, dir_loc, varsC>>

InitC0 ==
    /\ schema = [directive_definitions |-> <<>>, types |-> <<>>]
    /\ def = None
    /\ call_stack = <<>>
    /\ recursion_stack = [seen |-> <<>>, index |-> {}]
    /\ ret = "none"
    /\ trace = <<>>
    /\ status = "applications"
    /\ diagnostics = <<>>

InitDirectives ==
    /\ app_schema \in {<<>>} \cup {<<s>> : s \in AppSchemas}
    /\ dir_loc \in {"FIELD", "OBJECT"}
    /\ dirs = <<>>
    /\ seen_directives = <<>>
    /\ app_diagnostics = <<>>
    /\ calls = {}
    /\ InitC0

NextDirectives == validate_directives

SpecDirectives == InitDirectives /\ [][NextDirectives]_vars

\* =================================================================== claims
\* ------------------------------------------- the schema as a directive graph
\* (what the claims speak of, defined from the schema alone, not from the search)
Range(q) == {q[k] : k \in DOMAIN q}

Defined == DOMAIN schema.directive_definitions

FieldTypes(t) ==
    IF t \in DOMAIN schema.types /\ schema.types[t].kind = "InputObject"
    THEN {f.ty : f \in Range(schema.types[t].fields)} \cap DOMAIN schema.types
    ELSE {}

RECURSIVE TypeClosure(_)
TypeClosure(S) ==
    LET n == S \cup UNION {FieldTypes(t) : t \in S}
    IN IF n = S THEN S ELSE TypeClosure(n)

\* the types the search can enter from an input value of type ty
TypesUnder(ty) == TypeClosure({ty} \cap DOMAIN schema.types)

\* an input-object type that reaches itself through its fields' types
CyclicType(t) == t \in TypeClosure(FieldTypes(t))

AppliedOn(t) ==
    Range(t.directives)
    \cup (IF t.kind = "Enum" THEN UNION {Range(v) : v \in Range(t.values)} ELSE {})
    \cup (IF t.kind = "InputObject"
          THEN UNION {Range(f.directives) : f \in Range(t.fields)} ELSE {})

\* the directive names applied on d's arguments and on everything their types
\* reach: argument directives, type directives, enum-value directives, fields
Carries(d) ==
    UNION {Range(a.directives)
             \cup UNION {AppliedOn(schema.types[t]) : t \in TypesUnder(a.ty)} :
           a \in Range(schema.directive_definitions[d])}

Uses(d) == Carries(d) \cap Defined

RECURSIVE DirClosure(_)
DirClosure(S) ==
    LET n == S \cup UNION {Uses(d) : d \in S}
    IN IF n = S THEN S ELSE DirClosure(n)

\* d reaches an application of itself
OnCycle(d) == d \in DirClosure(Uses(d))

DirectiveGraphAcyclic == \A d \in Defined : ~OnCycle(d)

SetMax(S) == IF S = {} THEN 0 ELSE CHOOSE m \in S : \A k \in S : k <= m

\* the longest path of distinct directive names that starts at d
RECURSIVE NestDepth(_, _)
NestDepth(d, visited) ==
    1 + SetMax({NestDepth(e, visited \cup {e}) : e \in Uses(d) \ visited})

WithinDepthBound(d) == NestDepth(d, {d}) <= RecursionLimit

\* the number of input-object types nested under type name ty (acyclic only)
RECURSIVE InputDepth(_)
InputDepth(ty) ==
    IF ty \in DOMAIN schema.types /\ schema.types[ty].kind = "InputObject"
    THEN 1 + SetMax({InputDepth(f.ty) : f \in Range(schema.types[ty].fields)})
    ELSE 0

Finished == status \in {"validated", "stack_overflow"}

\* The search runs out of native stack only where it walks a cycle of input
\* objects: no finite descent of the schemas explored reaches StackLimit.
OverflowOnlyOnTypeCycle ==
    status = "stack_overflow" => \E t \in DOMAIN schema.types : CyclicType(t)

\* C1: validating a directive definition always completes, for every schema:
\* it never aborts on unbounded recursion, input objects that reference each
\* other cyclically included.
C1_AlwaysCompletes == status # "stack_overflow"

\* C2: (directive nesting within the depth bound, spec 4.2 item 4) if the
\* definition under validation reaches an application of itself, validating it
\* reports exactly one recursive-directive-definition diagnostic naming it; if
\* it does not, the cycle check reports nothing, whatever it uses.
C2_OneRecursiveDiagnostic ==
    (Finished /\ WithinDepthBound(def)) =>
        IF OnCycle(def)
        THEN /\ Len(diagnostics) = 1
             /\ diagnostics[1].kind = "RecursiveDirectiveDefinition"
             /\ diagnostics[1].name = def
        ELSE diagnostics = <<>>

\* C3: (directive nesting within the depth bound, spec 4.2 item 4) on a schema
\* whose directive-definition graph is acyclic, check returns success for the
\* definition under validation, whichever it is, and no diagnostic is emitted.
C3_NoFalsePositive ==
    (Finished /\ DirectiveGraphAcyclic /\ WithinDepthBound(def)) =>
        /\ status = "validated"
        /\ ret = "Ok"
        /\ diagnostics = <<>>

\* C4: when an argument type of the definition leads into an acyclic chain of
\* input objects at least twice the depth bound long (here: with no directive
\* applied anywhere under the definition), validating the definition ends,
\* without a crash, with a deeply-nested-type diagnostic naming the directive.
C4_DeepChainDiagnostic ==
    (/\ Finished
     /\ Carries(def) = {}
     /\ \E a \in Range(schema.directive_definitions[def]) :
           /\ \A t \in TypesUnder(a.ty) : ~CyclicType(t)
           /\ InputDepth(a.ty) >= 2 * RecursionLimit) =>
        /\ status = "validated"
        /\ \E k \in DOMAIN diagnostics :
              diagnostics[k].kind = "DeeplyNestedType" /\ diagnostics[k].name = def

\* The state part of C10: path and set agree, the root is first, every
\* directive frame that has descended sees its name right after the path it
\* was entered with, and the frame in control sees that path itself.
PathAndSetAgree ==
    status \in {"checking", "validated"} =>
        /\ recursion_stack.index = Range(recursion_stack.seen)
        /\ Cardinality(recursion_stack.index) = Len(recursion_stack.seen)
        /\ First(recursion_stack) = def
        /\ \A k \in DOMAIN call_stack :
              call_stack[k].fn = "directive" =>
                 IF k = Len(call_stack)
                 THEN recursion_stack.seen = call_stack[k].entry
                 ELSE /\ Len(recursion_stack.seen) > Len(call_stack[k].entry)
                      /\ SubSeq(recursion_stack.seen, 1, Len(call_stack[k].entry) + 1)
                           = Append(call_stack[k].entry, call_stack[k].name)
        /\ (call_stack = <<>> => recursion_stack.seen = <<def>>)

DirectiveReturnRestores ==
    (Running("directive") /\ call_stack' = SubSeq(call_stack, 1, Len(call_stack) - 1)) =>
        recursion_stack'.seen = Top.entry

At(kind, loc) ==
    {k \in DOMAIN app_diagnostics :
        app_diagnostics[k].kind = kind /\ app_diagnostics[k].loc = loc}

\* the diagnostics reported anywhere inside the i-th application
Inside(i) ==
    {k \in DOMAIN app_diagnostics :
        /\ app_diagnostics[k].loc.start >= 10 * i
        /\ app_diagnostics[k].loc.start <= 10 * i + 9}

Known(i) ==
    /\ app_schema # <<>>
    /\ dirs[i].name \in DOMAIN app_schema[1].directive_definitions

DefOf(i) == app_schema[1].directive_definitions[dirs[i].name]

Earlier(i) == {j \in 1..(i - 1) : dirs[j].name = dirs[i].name}

FirstOf(i) == CHOOSE j \in Earlier(i) : \A k \in Earlier(i) : j <= k

Supplied(i, name) == {j \in DOMAIN dirs[i].arguments : dirs[i].arguments[j].name = name}

\* C5: without a schema no undefined-directive diagnostic is emitted for any
\* application of the list.
C5_NoSchemaNoUndefinedDirective ==
    app_schema = <<>> =>
        \A k \in DOMAIN app_diagnostics : app_diagnostics[k].kind # "UndefinedDirective"

\* C6: in one application list every occurrence of a defined non-repeatable
\* directive after the first yields exactly one duplicate-directive diagnostic,
\* located at that occurrence and carrying the first occurrence's location;
\* a first occurrence, a repeatable directive and a directive without a known
\* definition yield none.
C6_DuplicateDirective ==
    \A i \in DOMAIN dirs :
        IF Earlier(i) # {} /\ Known(i) /\ ~DefOf(i).repeatable
        THEN /\ Cardinality(At("UniqueDirective", Location(i))) = 1
             /\ \A k \in At("UniqueDirective", Location(i)) :
                   /\ app_diagnostics[k].name = dirs[i].name
                   /\ app_diagnostics[k].related.start_of = Location(FirstOf(i))
                   /\ app_diagnostics[k].related.end_of = NameLocation(FirstOf(i))
        ELSE At("UniqueDirective", Location(i)) = {}

\* a non-repeatable directive applied three times
C6_Witness ==
    /\ Len(dirs) = 3
    /\ \A i \in DOMAIN dirs : dirs[i].name = "d" /\ Known(i) /\ ~DefOf(i).repeatable
    /\ Cardinality({k \in DOMAIN app_diagnostics :
                      app_diagnostics[k].kind = "UniqueDirective"}) = 2

\* C7 as claimed: for a required argument definition of a known directive the
\* missing-required-argument diagnostic is emitted if the application omits
\* the argument or supplies the literal null, and never if it supplies a
\* variable reference or another non-null value.
C7_Original ==
    \A i \in DOMAIN dirs : Known(i) =>
        \A a \in Range(DefOf(i).arguments) : a.is_required =>
            LET reported == \E k \in At("RequiredArgument", Location(i)) :
                               app_diagnostics[k].argument = a.name
                args == dirs[i].arguments
            IN /\ (Supplied(i, a.name) = {}
                   \/ \E j \in Supplied(i, a.name) : args[j].value = "Null") => reported
               /\ (\E j \in Supplied(i, a.name) : args[j].value # "Null") => ~reported

\* C7 (amended): for an application of a known directive and each of its
\* argument definitions, exactly one missing-required-argument diagnostic is
\* emitted when the definition is required and the application omits the
\* argument or the FIRST argument it writes under that name is the literal
\* null; none is emitted when the definition is not required or that first
\* argument is a variable reference or another non-null value.
C7_RequiredArgument ==
    \A i \in DOMAIN dirs : Known(i) =>
        \A a \in Range(DefOf(i).arguments) :
            LET reported == {k \in At("RequiredArgument", Location(i)) :
                               app_diagnostics[k].argument = a.name}
                args == dirs[i].arguments
                first == CHOOSE j \in Supplied(i, a.name) :
                            \A k \in Supplied(i, a.name) : j <= k
            IN IF /\ a.is_required
                  /\ (Supplied(i, a.name) = {} \/ args[first].value = "Null")
               THEN Cardinality(reported) = 1
               ELSE reported = {}

\* a required argument written twice, the literal null first and a variable
\* reference second: the diagnostic is emitted
C7_Witness ==
    \E i \in DOMAIN dirs :
        /\ Known(i)
        /\ DefOf(i).arguments # <<>>
        /\ DefOf(i).arguments[1].is_required
        /\ dirs[i].arguments = <<[name |-> "x", value |-> "Null"],
                                 [name |-> "x", value |-> "Variable"]>>
        /\ Cardinality(At("RequiredArgument", Location(i))) = 1

\* C8: an application whose name has no definition in the schema gets exactly
\* one undefined-directive diagnostic and nothing else: no unsupported
\* location, undefined argument, missing required argument or duplicate.
C8_UndefinedDirective ==
    \A i \in DOMAIN dirs :
        (app_schema # <<>> /\ ~Known(i)) =>
            /\ Cardinality(At("UndefinedDirective", Location(i))) = 1
            /\ \A k \in Inside(i) : app_diagnostics[k].kind = "UndefinedDirective"

\* an undefined directive applied twice, with an argument
C8_Witness ==
    /\ app_schema # <<>>
    /\ Len(dirs) >= 2
    /\ dirs[1].name = "u" /\ dirs[2].name = "u"
    /\ dirs[2].arguments # <<>>

\* C9: every argument an application of a known directive supplies under a
\* name that no argument definition has yields exactly one undefined-argument
\* diagnostic, whatever its value, and the application's other arguments are
\* still handed to the argument validators.
C9_UndefinedArgument ==
    \A i \in DOMAIN dirs : Known(i) =>
        \A j \in DOMAIN dirs[i].arguments :
            IF \A a \in Range(DefOf(i).arguments) : a.name # dirs[i].arguments[j].name
            THEN /\ Cardinality(At("UndefinedArgument", ArgLocation(i, j))) = 1
                 /\ \A k \in At("UndefinedArgument", ArgLocation(i, j)) :
                       app_diagnostics[k].argument = dirs[i].arguments[j].name
            ELSE /\ At("UndefinedArgument", ArgLocation(i, j)) = {}
                 /\ <<i, j, "validate_variable_usage">> \in calls

\* an unknown argument z: null written before a defined argument x
C9_Witness ==
    \E i \in DOMAIN dirs :
        /\ Known(i)
        /\ DefOf(i).arguments # <<>>
        /\ Len(dirs[i].arguments) = 2
        /\ dirs[i].arguments[1] = [name |-> "z", value |-> "Null"]
        /\ dirs[i].arguments[2].name = "x"
        /\ At("UndefinedArgument", ArgLocation(i, 1)) # {}
        /\ <<i, 2, "validate_variable_usage">> \in calls

====
